---- MODULE Spec2Model ----
(***************************************************************************)
(* A model of the europe-elects-csv library (src/src/lib.rs,               *)
(* src/src/errors.rs): the field decoders, the jurisdiction table, the     *)
(* two table constructors PollTable::try_from_path / PollTable::from_str   *)
(* and PollTable::date_range.                                              *)
(*                                                                         *)
(* Text is a sequence of one-character strings, so that contains,          *)
(* trim_end_matches, the number grammar and the path splitting are         *)
(* computed character by character, as the code computes them.             *)
(***************************************************************************)
EXTENDS Integers, Sequences, FiniteSets, TLC

VARIABLES
    cell,        \* the raw text of the field being decoded
    column,      \* the column (Poll field) the cell belongs to
    decoded,     \* the decoder's outcome for cell, or Pending
    entry,       \* which constructor is running: "try_from_path" | "from_str"
    pc,          \* position inside the running constructor
    path,        \* try_from_path's path argument
    openable,    \* whether the file system lets path be opened
    code,        \* from_str's jurisdiction argument
    source,      \* the data rows of the csv source, in source order
    rdr,         \* number of rows the reader has handed out so far
    polls,       \* the local Vec<Poll> being filled
    jurisdiction,\* the resolved jurisdiction, or NoJurisdiction
    result,      \* what the constructor returned (or Pending)
    range,       \* what date_range returned on the constructed table
    reported     \* observer: the (error type, failure reason, error kind) returned so far

vars == <<cell, column, decoded, entry, pc, path, openable, code, source, rdr,
          polls, jurisdiction, result, range, reported>>

decodeVars == <<cell, column, decoded>>
tableVars == <<entry, pc, path, openable, code, source, rdr, polls,
               jurisdiction, result, range, reported>>

-----------------------------------------------------------------------------
(* Bounds of the model.                                                    *)

MaxCellLen == 3     \* enumerated cells have at most this many characters
MaxRows == 2        \* a csv source has at most this many data rows

-----------------------------------------------------------------------------
(* Text helpers: str::contains, str::trim_end_matches.                     *)

ContainsChar(s, c) == \E i \in 1..Len(s) : s[i] = c

Contains(s, sub) ==
    \E i \in 1..(Len(s) - Len(sub) + 1) : SubSeq(s, i, i + Len(sub) - 1) = sub

RECURSIVE TrimEndMatches(_, _)
TrimEndMatches(s, c) ==
    IF Len(s) > 0 /\ s[Len(s)] = c
    THEN TrimEndMatches(SubSeq(s, 1, Len(s) - 1), c)
    ELSE s

Digits == {"0", "1", "2", "3", "4", "5", "6", "7", "8", "9"}

DigitVal(c) ==
    CASE c = "0" -> 0 [] c = "1" -> 1 [] c = "2" -> 2 [] c = "3" -> 3
      [] c = "4" -> 4 [] c = "5" -> 5 [] c = "6" -> 6 [] c = "7" -> 7
      [] c = "8" -> 8 [] c = "9" -> 9

RECURSIVE DigitsVal(_)
DigitsVal(s) ==
    IF s = <<>> THEN 0
    ELSE 10 * DigitsVal(SubSeq(s, 1, Len(s) - 1)) + DigitVal(s[Len(s)])

AllDigits(s) == \A i \in 1..Len(s) : s[i] \in Digits

ToAsciiLower(c) ==
    CASE c = "I" -> "i" [] c = "N" -> "n" [] c = "F" -> "f" [] c = "A" -> "a"
      [] c = "T" -> "t" [] c = "Y" -> "y" [] OTHER -> c

LowerStr(s) == [i \in 1..Len(s) |-> ToAsciiLower(s[i])]

(* A decimal m * 10^e with the trailing zeros of m moved into e, so that    *)
(* "1.50" and "1.5" are the same number.                                    *)
RECURSIVE Normalise(_, _)
Normalise(m, e) ==
    IF m = 0 THEN [mant |-> 0, exp |-> 0]
    ELSE IF m % 10 = 0 THEN Normalise(m \div 10, e + 1)
    ELSE [mant |-> m, exp |-> e]

F32(neg, m, e) ==
    LET n == Normalise(m, e)
    IN  [kind |-> "num", neg |-> neg, mant |-> n.mant, exp |-> n.exp]

F32Inf(neg) == [kind |-> "inf", neg |-> neg, mant |-> 0, exp |-> 0]
F32NaN == [kind |-> "nan", neg |-> FALSE, mant |-> 0, exp |-> 0]

ParseErr == [ok |-> FALSE, val |-> F32NaN]

(* str::parse::<f32>: an optional sign, then inf / infinity / nan (any      *)
(* case) or decimal digits with at most one '.', at least one digit.  No   *)
(* cell of the model carries an exponent, and every numeric cell has fewer *)
(* significant digits than an f32 keeps, so the value is the decimal.      *)
ParseF32(s) ==
    LET signed == Len(s) > 0 /\ s[1] \in {"+", "-"}
        neg == Len(s) > 0 /\ s[1] = "-"
        body == IF signed THEN SubSeq(s, 2, Len(s)) ELSE s
        low == LowerStr(body)
        dots == {i \in 1..Len(body) : body[i] = "."}
        dot == IF dots = {} THEN Len(body) + 1 ELSE CHOOSE i \in dots : TRUE
        int == SubSeq(body, 1, dot - 1)
        frac == SubSeq(body, dot + 1, Len(body))
    IN  IF low \in {<<"i", "n", "f">>,
                    <<"i", "n", "f", "i", "n", "i", "t", "y">>}
        THEN [ok |-> TRUE, val |-> F32Inf(neg)]
        ELSE IF low = <<"n", "a", "n">>
        THEN [ok |-> TRUE, val |-> F32NaN]
        ELSE IF /\ Cardinality(dots) <= 1
                /\ AllDigits(int) /\ AllDigits(frac)
                /\ Len(int) + Len(frac) > 0
        THEN [ok |-> TRUE, val |-> F32(neg, DigitsVal(int \o frac), 0 - Len(frac))]
        ELSE ParseErr

-----------------------------------------------------------------------------
(* Literals of the decoders.                                               *)

NotAvailableText == <<"N", "o", "t", " ", "A", "v", "a", "i", "l", "a", "b", "l", "e">>
NAText == <<"N", "/", "A">>
NationalText == <<"N", "a", "t", "i", "o", "n", "a", "l">>
EuropeanText == <<"E", "u", "r", "o", "p", "e", "a", "n">>
ProvidedText == <<"P", "r", "o", "v", "i", "d", "e", "d">>
EstimatedAssumedText ==
    <<"E", "s", "t", "i", "m", "a", "t", "e", "d", "/", "A", "s", "s", "u", "m", "e", "d">>

Sentinels == {NotAvailableText, NAText}

-----------------------------------------------------------------------------
(* Decoder outcomes.  Ok carries the PollOption / Scope value, Err is the  *)
(* serde custom error handed back to the caller, Panic is the process      *)
(* abort of a failed expect().                                             *)

NoDate == [y |-> 0, m |-> 0, d |-> 0]

NoValue == [opt |-> "None", type |-> "None", text |-> <<>>, num |-> F32NaN, date |-> NoDate]

NotAvailable == [NoValue EXCEPT !.opt = "NotAvailable"]
SomeText(t) == [NoValue EXCEPT !.opt = "Some", !.type = "String", !.text = t]
SomeF32(v) == [NoValue EXCEPT !.opt = "Some", !.type = "f32", !.num = v]
SomePercentage(v) == [NoValue EXCEPT !.opt = "Some", !.type = "Percentage", !.num = v]
SomeSeats(v) == [NoValue EXCEPT !.opt = "Some", !.type = "Seats", !.num = v]
PlainText(t) == [NoValue EXCEPT !.opt = "Plain", !.type = "String", !.text = t]
PlainEnum(name) == [NoValue EXCEPT !.opt = "Plain", !.type = name]
SomeEnum(name) == [NoValue EXCEPT !.opt = "Some", !.type = name]
PlainDate(dt) == [NoValue EXCEPT !.opt = "Plain", !.type = "NaiveDate", !.date = dt]

Ok(v) == [tag |-> "Ok", val |-> v, msg |-> ""]
Err(m) == [tag |-> "Err", val |-> NoValue, msg |-> m]
Panic(m) == [tag |-> "Panic", val |-> NoValue, msg |-> m]
Pending == [tag |-> "Pending", val |-> NoValue, msg |-> ""]

-----------------------------------------------------------------------------
(* The field decoders (impl Deserialize for ...).  Each first takes the    *)
(* cell as a String, which is val.                                         *)

Deserialize_String(val) == Ok(PlainText(val))

Deserialize_PollOption_String(val) ==
    IF val \in Sentinels THEN Ok(NotAvailable) ELSE Ok(SomeText(val))

Deserialize_Scope(val) ==
    IF val = NationalText THEN Ok(PlainEnum("National"))
    ELSE IF val = EuropeanText THEN Ok(PlainEnum("European"))
    ELSE Err("Failed to parse Scope")

Deserialize_PollOption_f32(val) ==
    LET p == ParseF32(val)
    IN  IF p.ok THEN Ok(SomeF32(p.val))
        ELSE IF val \in Sentinels THEN Ok(NotAvailable)
        ELSE Err("Failed to parse PollOption<f32>")

Deserialize_PollOption_SampleSizeQualification(val) ==
    IF val = ProvidedText THEN Ok(SomeEnum("Provided"))
    ELSE IF val = EstimatedAssumedText THEN Ok(SomeEnum("EstimatedAssumed"))
    ELSE IF val \in Sentinels THEN Ok(NotAvailable)
    ELSE Err("Failed to parse SampleSizeQualification")

Deserialize_PollOption_Percentage(val) ==
    IF ContainsChar(val, "%")
    THEN LET p == ParseF32(TrimEndMatches(val, "%"))
         IN  IF p.ok THEN Ok(SomePercentage(p.val))
             ELSE Panic("Should be able to parse percentage as f32")
    ELSE IF Contains(val, NotAvailableText) \/ Contains(val, NAText)
    THEN Ok(NotAvailable)
    ELSE Err("Failed to parse PollOption<Percentage>")

(* Deserialize_PollOption_PercentageOrSeats with the '%' text classified as  *)
(* seats: the two arms of the variant choice swapped.                      *)
Mutant_PercentageOrSeats_Swapped(val) ==
    IF val \in Sentinels THEN Ok(NotAvailable)
    ELSE IF ContainsChar(val, "%")
    THEN LET p == ParseF32(TrimEndMatches(val, "%"))
         IN  IF p.ok THEN Ok(SomeSeats(p.val))
             ELSE Panic("Should be able to parse percentage as f32")
    ELSE LET p == ParseF32(val)
         IN  IF p.ok THEN Ok(SomePercentage(p.val))
             ELSE Err("Seats could not be parsed as f32")

Deserialize_PollOption_PercentageOrSeats(val) ==
    IF val \in Sentinels THEN Ok(NotAvailable)
    ELSE IF ContainsChar(val, "%")
    THEN LET p == ParseF32(TrimEndMatches(val, "%"))
         IN  IF p.ok THEN Ok(SomePercentage(p.val))
             ELSE Panic("Should be able to parse percentage as f32")
    ELSE LET p == ParseF32(val)
         IN  IF p.ok THEN Ok(SomeSeats(p.val))
             ELSE Err("Seats could not be parsed as f32")

(* chrono's NaiveDate from a cell: YYYY-MM-DD naming a day of the calendar. *)
(* The date cells of the model are either of that exact shape or hold no   *)
(* digits at all.                                                          *)
IsLeap(y) == (y % 4 = 0 /\ y % 100 # 0) \/ y % 400 = 0

DaysInMonth(y, m) ==
    IF m = 2 THEN (IF IsLeap(y) THEN 29 ELSE 28)
    ELSE IF m \in {4, 6, 9, 11} THEN 30 ELSE 31

Deserialize_NaiveDate(val) ==
    IF /\ Len(val) = 10
       /\ val[5] = "-" /\ val[8] = "-"
       /\ \A i \in {1, 2, 3, 4, 6, 7, 9, 10} : val[i] \in Digits
    THEN LET y == DigitsVal(SubSeq(val, 1, 4))
             m == DigitsVal(SubSeq(val, 6, 7))
             d == DigitsVal(SubSeq(val, 9, 10))
         IN  IF m \in 1..12 /\ d \in 1..DaysInMonth(y, m)
             THEN Ok(PlainDate([y |-> y, m |-> m, d |-> d]))
             ELSE Err("input is out of range")
    ELSE Err("input contains invalid characters")

-----------------------------------------------------------------------------
(* The columns of a row and the decoder struct Poll gives each.            *)

FixedColumns ==
    {"Polling Firm", "Commissioners", "Fieldwork Start", "Fieldwork End", "Scope",
     "Sample Size", "Sample Size Qualification", "Participation", "Precision", "Other"}

PartyColumns == {"First Party", "Second Party"}

Columns == FixedColumns \cup PartyColumns

DecodeField(col, val) ==
    CASE col = "Polling Firm" -> Deserialize_String(val)
      [] col = "Commissioners" -> Deserialize_PollOption_String(val)
      [] col \in {"Fieldwork Start", "Fieldwork End"} -> Deserialize_NaiveDate(val)
      [] col = "Scope" -> Deserialize_Scope(val)
      [] col = "Sample Size" -> Deserialize_PollOption_f32(val)
      [] col = "Sample Size Qualification" ->
             Deserialize_PollOption_SampleSizeQualification(val)
      [] col = "Participation" -> Deserialize_PollOption_Percentage(val)
      [] OTHER -> Deserialize_PollOption_PercentageOrSeats(val)

-----------------------------------------------------------------------------
(* The cells the decoders are run on: every text of at most MaxCellLen     *)
(* characters over CellAlphabet, and the longer texts the decoders and     *)
(* their documentation name.                                               *)

CellAlphabet == {"1", "5", ".", "%", "-", "N", "/", "A"}

RECURSIVE TextsUpTo(_)
TextsUpTo(n) ==
    IF n = 0 THEN {<<>>}
    ELSE LET shorter == TextsUpTo(n - 1)
         IN  shorter \cup {Append(s, c) : s \in shorter, c \in CellAlphabet}

Date0306 == <<"2", "0", "2", "4", "-", "0", "3", "-", "0", "6">>
Date0308 == <<"2", "0", "2", "4", "-", "0", "3", "-", "0", "8">>
Date0230 == <<"2", "0", "2", "4", "-", "0", "2", "-", "3", "0">>
RegionalText == <<"R", "e", "g", "i", "o", "n", "a", "l">>
EpicPollingText == <<"E", "p", "i", "c", " ", "P", "o", "l", "l", "i", "n", "g">>

NamedCells ==
    {NotAvailableText, NAText, NationalText, EuropeanText, ProvidedText,
     EstimatedAssumedText, RegionalText, EpicPollingText,
     Date0306, Date0308, Date0230,
     <<"a", "b", "c", "%">>, <<"x", "N", "/", "A">>, <<"N", "/", "A", "%">>,
     NotAvailableText \o <<"!">>, <<"N", "a", "N">>, <<"i", "n", "f">>,
     <<"3", "0", "%">>, <<"4", "0", "%">>, <<"2", "0", "5", "4">>,
     <<"1", "2", ".", "5", "0", "%">>, <<"1", "2", ".", "5", "%">>,
     <<"%", "1", "2">>, <<"+", "7">>}

Cells == TextsUpTo(MaxCellLen) \cup NamedCells

-----------------------------------------------------------------------------
(* SpecDecode: one cell of one column is decoded.                          *)

NoResult == [tag |-> "Pending", kind |-> "", inner |-> "", polls |-> <<>>, jurisdiction |-> "None"]
NoRange == [tag |-> "None", days |-> <<>>]

IdleTable ==
    /\ entry = "none" /\ pc = "idle" /\ path = <<>> /\ openable = FALSE
    /\ code = <<>> /\ source = <<>> /\ rdr = 0 /\ polls = <<>>
    /\ jurisdiction = "None" /\ result = NoResult /\ range = NoRange
    /\ reported = {}

InitDecode ==
    /\ cell \in Cells
    /\ column \in Columns
    /\ decoded = Pending
    /\ IdleTable

DecodeStep(cols, outcome) ==
    /\ decoded = Pending
    /\ column \in cols
    /\ decoded' = outcome
    /\ UNCHANGED <<cell, column>>
    /\ UNCHANGED tableVars

DecodePollingFirm == DecodeStep({"Polling Firm"}, Deserialize_String(cell))
DecodeCommissioners == DecodeStep({"Commissioners"}, Deserialize_PollOption_String(cell))
DecodeFieldwork == DecodeStep({"Fieldwork Start", "Fieldwork End"}, Deserialize_NaiveDate(cell))
DecodeScope == DecodeStep({"Scope"}, Deserialize_Scope(cell))
DecodeSampleSize == DecodeStep({"Sample Size"}, Deserialize_PollOption_f32(cell))
DecodeSampleSizeQualification ==
    DecodeStep({"Sample Size Qualification"}, Deserialize_PollOption_SampleSizeQualification(cell))
DecodeParticipation == DecodeStep({"Participation"}, Deserialize_PollOption_Percentage(cell))
DecodePercentageOrSeats ==
    DecodeStep({"Precision", "Other"} \cup PartyColumns, Deserialize_PollOption_PercentageOrSeats(cell))

NextDecode ==
    \/ DecodePollingFirm
    \/ DecodeCommissioners
    \/ DecodeFieldwork
    \/ DecodeScope
    \/ DecodeSampleSize
    \/ DecodeSampleSizeQualification
    \/ DecodeParticipation
    \/ DecodePercentageOrSeats

SpecDecode == InitDecode /\ [][NextDecode]_vars

-----------------------------------------------------------------------------
(* Claims about the field decoders, checked under SpecDecode.              *)

OptionalColumns ==
    {"Commissioners", "Sample Size", "Sample Size Qualification", "Participation",
     "Precision", "Other"} \cup PartyColumns

PercentageOrSeatsColumns == {"Precision", "Other"} \cup PartyColumns

WithoutLast(s) == SubSeq(s, 1, Len(s) - 1)

EndsWithPercent(s) == Len(s) > 0 /\ s[Len(s)] = "%"

(* C1: in every optional column the decoded value is the unavailable       *)
(* marker exactly when the cell text equals "Not Available" or "N/A".      *)
C1_SentinelExactMatch ==
    (decoded # Pending /\ column \in OptionalColumns) =>
        ((decoded = Ok(NotAvailable)) <=> (cell \in Sentinels))

C3_GarbageIsDecodeError ==
    (/\ decoded # Pending
     /\ column \in (OptionalColumns \cup {"Scope"}) \ {"Commissioners"}
     /\ cell \notin Sentinels
     /\ ~ParseF32(cell).ok
     /\ ~(EndsWithPercent(cell) /\ ParseF32(WithoutLast(cell)).ok)
     /\ cell \notin {NationalText, EuropeanText, ProvidedText, EstimatedAssumedText})
        => decoded.tag = "Err"

(* C10: in the Participation column a non-sentinel cell that is a number,  *)
(* with or without a trailing '%', decodes to Percentage of that number,   *)
(* and a cell whose remainder is not a number decodes to an error value.   *)
C10_PercentageMarkerOptional ==
    (decoded # Pending /\ column = "Participation" /\ cell \notin Sentinels) =>
        LET rest == IF EndsWithPercent(cell) THEN WithoutLast(cell) ELSE cell
        IN  IF ParseF32(rest).ok
            THEN decoded = Ok(SomePercentage(ParseF32(rest).val))
            ELSE decoded.tag = "Err"

-----------------------------------------------------------------------------
(* enum Jurisdiction and the code table init_jurisdiction builds.           *)

Jurisdiction ==
    {"Albania", "Andorra", "Armenia", "Austria", "BelgiumBrussels",
     "BelgiumFlanders", "BelgiumWallonia", "Bulgaria", "Croatia", "Cyprus",
     "Czechia", "Denmark", "Estonia", "Finland", "France", "Georgia",
     "Germany", "Gibraltar", "Greece", "Hungary", "Iceland", "Ireland",
     "Italy", "Kosovo", "Latvia", "Lithuania", "Luxembourg", "Malta",
     "Moldova", "Montenegro", "Netherlands", "NorthMacedonia", "Norway",
     "Poland", "Portugal", "Romania", "Russia", "Serbia", "Slovakia",
     "Slovenia", "Spain", "Sweden", "Switzerland", "Turkiye",
     "UKGreatBritain", "UKNorthernIreland", "UKNorthernIrelandEuropean",
     "UKNorthernIrelandNational", "Ukraine"}

(* The array handed to HashMap::from, in source order. *)
JurisdictionEntries ==
    << <<<<"a", "l">>, "Albania">>,
       <<<<"a", "d">>, "Andorra">>,
       <<<<"a", "m">>, "Armenia">>,
       <<<<"a", "t">>, "Austria">>,
       <<<<"b", "e", "-", "b", "r", "u">>, "BelgiumBrussels">>,
       <<<<"b", "e", "-", "v", "l", "g">>, "BelgiumFlanders">>,
       <<<<"b", "e", "-", "w", "a", "l">>, "BelgiumWallonia">>,
       <<<<"b", "g">>, "Bulgaria">>,
       <<<<"h", "r">>, "Croatia">>,
       <<<<"c", "y">>, "Cyprus">>,
       <<<<"c", "z">>, "Czechia">>,
       <<<<"d", "k">>, "Denmark">>,
       <<<<"e", "e">>, "Estonia">>,
       <<<<"f", "i">>, "Finland">>,
       <<<<"f", "r">>, "France">>,
       <<<<"g", "e">>, "Georgia">>,
       <<<<"d", "e">>, "Germany">>,
       <<<<"g", "i">>, "Gibraltar">>,
       <<<<"g", "r">>, "Greece">>,
       <<<<"h", "u">>, "Hungary">>,
       <<<<"i", "s">>, "Iceland">>,
       <<<<"i", "e">>, "Ireland">>,
       <<<<"i", "t">>, "Italy">>,
       <<<<"x", "k">>, "Kosovo">>,
       <<<<"l", "v">>, "Latvia">>,
       <<<<"l", "t">>, "Lithuania">>,
       <<<<"l", "u">>, "Luxembourg">>,
       <<<<"m", "t">>, "Malta">>,
       <<<<"m", "d">>, "Moldova">>,
       <<<<"m", "e">>, "Montenegro">>,
       <<<<"n", "l">>, "Netherlands">>,
       <<<<"m", "k">>, "NorthMacedonia">>,
       <<<<"n", "o">>, "Norway">>,
       <<<<"p", "l">>, "Poland">>,
       <<<<"p", "t">>, "Portugal">>,
       <<<<"r", "o">>, "Romania">>,
       <<<<"r", "u">>, "Russia">>,
       <<<<"r", "s">>, "Serbia">>,
       <<<<"s", "k">>, "Slovakia">>,
       <<<<"s", "i">>, "Slovenia">>,
       <<<<"e", "s">>, "Spain">>,
       <<<<"s", "e">>, "Sweden">>,
       <<<<"c", "h">>, "Switzerland">>,
       <<<<"t", "r">>, "Turkiye">>,
       <<<<"g", "b">>, "UKGreatBritain">>,
       <<<<"g", "b", "-", "n", "i", "r">>, "UKNorthernIreland">>,
       <<<<"g", "b", "-", "n", "i", "r", "-", "E">>, "UKNorthernIrelandEuropean">>,
       <<<<"g", "b", "-", "n", "i", "r", "-", "N">>, "UKNorthernIrelandNational">>,
       <<<<"u", "a">>, "Ukraine">> >>

(* init_jurisdiction with one entry's variant repeated from the line above *)
(* it ("gb-nir" given the jurisdiction of "gb").                           *)
Mutant_init_jurisdiction_Repeated ==
    [JurisdictionEntries EXCEPT ![46] = <<JurisdictionEntries[46][1], "UKGreatBritain">>]

init_jurisdiction == JurisdictionEntries

(* HashMap::from keeps the last entry of a key; HashMap::get. *)
MapGet(map, key) ==
    LET hits == {i \in 1..Len(map) : map[i][1] = key}
    IN  IF hits = {} THEN "None"
        ELSE map[CHOOSE i \in hits : \A j \in hits : j <= i][2]

MapKeys(map) == {map[i][1] : i \in 1..Len(map)}

-----------------------------------------------------------------------------
(* std::path::Path::file_name, extension and file_stem (Unix).  An Option  *)
(* is a sequence of no or one element.                                     *)

None == <<>>
Some(x) == <<x>>

RECURSIVE SplitOn(_, _)
SplitOn(s, c) ==
    IF ~ContainsChar(s, c) THEN <<s>>
    ELSE LET i == CHOOSE k \in 1..Len(s) : s[k] = c /\ \A j \in 1..(k - 1) : s[j] # c
         IN  <<SubSeq(s, 1, i - 1)>> \o SplitOn(SubSeq(s, i + 1, Len(s)), c)

(* The components of a path: empty segments vanish, and so does "." unless *)
(* the path starts with it.  A leading "/" is the root component "/".      *)
Components(p) ==
    LET segs == SplitOn(p, "/")
        keep == {i \in 1..Len(segs) :
                    /\ ~(i = 1 /\ Len(p) > 0 /\ p[1] = "/")
                    /\ segs[i] # <<>>
                    /\ (segs[i] = <<".">> => i = 1)}
        root == IF Len(p) > 0 /\ p[1] = "/" THEN <<<<"/">>>> ELSE <<>>
        RECURSIVE Pick(_)
        Pick(i) == IF i > Len(segs) THEN <<>>
                   ELSE (IF i \in keep THEN <<segs[i]>> ELSE <<>>) \o Pick(i + 1)
    IN  root \o Pick(1)

FileName(p) ==
    LET cs == Components(p)
    IN  IF cs = <<>> THEN None
        ELSE IF cs[Len(cs)] \in {<<"/">>, <<".">>, <<".", ".">>} THEN None
        ELSE Some(cs[Len(cs)])

(* rsplit_file_at_dot: <<before, after>> around the last '.'. *)
RsplitFileAtDot(file) ==
    LET dots == {i \in 1..Len(file) : file[i] = "."}
        last == CHOOSE i \in dots : \A j \in dots : j <= i
    IN  IF file = <<".", ".">> THEN <<Some(file), None>>
        ELSE IF dots = {} THEN <<None, Some(file)>>
        ELSE IF last = 1 THEN <<Some(file), None>>
        ELSE <<Some(SubSeq(file, 1, last - 1)), Some(SubSeq(file, last + 1, Len(file)))>>

Extension(p) ==
    IF FileName(p) = None THEN None
    ELSE LET ba == RsplitFileAtDot(FileName(p)[1])
         IN  IF ba[1] = None THEN None ELSE ba[2]

FileStem(p) ==
    IF FileName(p) = None THEN None
    ELSE LET ba == RsplitFileAtDot(FileName(p)[1])
         IN  IF ba[1] # None THEN ba[1] ELSE ba[2]

CsvText == <<"c", "s", "v">>

-----------------------------------------------------------------------------
(* One csv row into a Poll (derive(Deserialize) on struct Poll).  The named *)
(* fields are decoded as the reader meets their columns; the columns of no *)
(* named field are kept for the flattened party_results map, which is      *)
(* decoded after them.  The first field that does not decode ends the row. *)

FieldOf(h) ==
    CASE h = "Polling Firm" -> "polling_firm"
      [] h = "Commissioners" -> "commissioners"
      [] h = "Fieldwork Start" -> "fieldwork_start"
      [] h = "Fieldwork End" -> "fieldwork_end"
      [] h = "Scope" -> "scope"
      [] h = "Sample Size" -> "sample_size"
      [] h = "Sample Size Qualification" -> "sample_size_qualification"
      [] h = "Participation" -> "participation"
      [] h = "Precision" -> "precision"
      [] h = "Other" -> "other"

PollFields == {FieldOf(h) : h \in FixedColumns}

RowOk(poll) == [tag |-> "Ok", poll |-> Some(poll)]
RowFail(tag) == [tag |-> tag, poll |-> None]

(* DecodeRow with the Other column also taken into the flattened map, as   *)
(* it is when a column's name does not keep it out of party_results.       *)
Mutant_DecodeRow_OtherFlattened(headers, row) ==
    LET out == [i \in 1..Len(headers) |-> DecodeField(headers[i], row[i])]
        fixed == {i \in 1..Len(headers) : headers[i] \in FixedColumns}
        party == {i \in 1..Len(headers) : headers[i] \notin FixedColumns \ {"Other"}}
        bad(S) == {i \in S : out[i].tag # "Ok"}
        first(S) == CHOOSE i \in S : \A j \in S : i <= j
        at(h) == CHOOSE i \in fixed : headers[i] = h
    IN  IF bad(fixed) # {} THEN RowFail(out[first(bad(fixed))].tag)
        ELSE IF {headers[i] : i \in fixed} # FixedColumns THEN RowFail("Err")
        ELSE IF bad(party) # {} THEN RowFail(out[first(bad(party))].tag)
        ELSE RowOk([f \in PollFields \cup {"party_results"} |->
                      IF f = "party_results"
                      THEN [h \in {headers[i] : i \in party} |->
                              out[CHOOSE i \in party : headers[i] = h].val]
                      ELSE out[at(CHOOSE h \in FixedColumns : FieldOf(h) = f)].val])

DecodeRow(headers, row) ==
    LET out == [i \in 1..Len(headers) |-> DecodeField(headers[i], row[i])]
        fixed == {i \in 1..Len(headers) : headers[i] \in FixedColumns}
        party == (1..Len(headers)) \ fixed
        bad(S) == {i \in S : out[i].tag # "Ok"}
        first(S) == CHOOSE i \in S : \A j \in S : i <= j
        at(h) == CHOOSE i \in fixed : headers[i] = h
    IN  IF bad(fixed) # {} THEN RowFail(out[first(bad(fixed))].tag)
        ELSE IF {headers[i] : i \in fixed} # FixedColumns THEN RowFail("Err")
        ELSE IF bad(party) # {} THEN RowFail(out[first(bad(party))].tag)
        ELSE RowOk([f \in PollFields \cup {"party_results"} |->
                      IF f = "party_results"
                      THEN [h \in {headers[i] : i \in party} |->
                              out[CHOOSE i \in party : headers[i] = h].val]
                      ELSE out[at(CHOOSE h \in FixedColumns : FieldOf(h) = f)].val])

-----------------------------------------------------------------------------
(* The csv sources the constructors are run on.                            *)

DocHeaders ==
    <<"Polling Firm", "Commissioners", "Fieldwork Start", "Fieldwork End", "Scope",
      "Sample Size", "Sample Size Qualification", "Participation", "Precision",
      "First Party", "Second Party", "Other">>

InterleavedHeaders ==
    <<"First Party", "Polling Firm", "Commissioners", "Fieldwork Start",
      "Fieldwork End", "Scope", "Second Party", "Sample Size",
      "Sample Size Qualification", "Participation", "Precision", "Other">>

TrailingPartyHeaders ==
    <<"Polling Firm", "Commissioners", "Fieldwork Start", "Fieldwork End", "Scope",
      "Sample Size", "Sample Size Qualification", "Participation", "Precision",
      "Other", "Second Party">>

HeaderLayouts == {DocHeaders, InterleavedHeaders, TrailingPartyHeaders}

Date0227 == <<"2", "0", "2", "4", "-", "0", "2", "-", "2", "7">>
Date0301 == <<"2", "0", "2", "4", "-", "0", "3", "-", "0", "1">>

(* The row of the documentation's example, by column. *)
DocRow ==
    [h \in Columns |->
        CASE h = "Polling Firm" -> EpicPollingText
          [] h = "Commissioners" -> NotAvailableText
          [] h = "Fieldwork Start" -> Date0306
          [] h = "Fieldwork End" -> Date0308
          [] h = "Scope" -> NationalText
          [] h = "Sample Size" -> <<"2", "0", "5", "4">>
          [] h = "Sample Size Qualification" -> ProvidedText
          [] h = "Participation" -> NAText
          [] h = "Precision" -> <<"1", "%">>
          [] h = "First Party" -> <<"3", "0", "%">>
          [] h = "Second Party" -> <<"4", "0", "%">>
          [] h = "Other" -> <<"5", "%">>]

OlderRow ==
    [DocRow EXCEPT !["Fieldwork Start"] = Date0227, !["Fieldwork End"] = Date0301,
                   !["Scope"] = EuropeanText, !["Participation"] = <<"5", "5", "%">>,
                   !["First Party"] = <<"1", "5">>, !["Second Party"] = NAText]

ReversedRow ==
    [DocRow EXCEPT !["Fieldwork Start"] = Date0308, !["Fieldwork End"] = Date0306]

RegionalRow == [DocRow EXCEPT !["Scope"] = RegionalText]

AbortingRow == [DocRow EXCEPT !["Precision"] = <<"a", "b", "c", "%">>]

SampleRows == {DocRow, OlderRow, ReversedRow, RegionalRow, AbortingRow}

RECURSIVE SeqsUpTo(_, _)
SeqsUpTo(S, n) ==
    IF n = 0 THEN {<<>>}
    ELSE LET shorter == SeqsUpTo(S, n - 1)
         IN  shorter \cup {Append(s, x) : s \in shorter, x \in S}

Record(headers, byColumn) == [i \in 1..Len(headers) |-> byColumn[headers[i]]]

Sources ==
    {[headers |-> hs, rows |-> [i \in 1..Len(rs) |-> Record(hs, rs[i])]] :
        hs \in HeaderLayouts, rs \in SeqsUpTo(SampleRows, MaxRows)}

Paths ==
    {<<"g", "b", ".", "c", "s", "v">>,
     <<"g", "b", "-", "n", "i", "r", ".", "c", "s", "v">>,
     <<"d", "/", "d", "e", ".", "c", "s", "v">>,
     <<"x", "e", ".", "c", "s", "v">>,
     <<"u", "s", ".", "c", "s", "v">>,
     <<"g", "b", ".", "t", "x", "t">>,
     <<"g", "b">>,
     <<".", "c", "s", "v">>,
     <<".", ".">>,
     <<>>}

CodeArgs ==
    {<<"g", "b">>, <<"g", "b", "-", "n", "i", "r">>, <<"d", "e">>,
     <<"x", "e">>, <<"u", "s">>, <<"G", "B">>}

-----------------------------------------------------------------------------
(* The errors of errors.rs.  #[from] csv::Error wraps every csv::Error, an *)
(* Io one from opening the file and a Deserialize one from a row alike, in *)
(* ReaderBuilderError; inner keeps the csv::Error's own kind.              *)

Failure(kind, inner) ==
    [tag |-> "Err", kind |-> kind, inner |-> inner, polls |-> <<>>, jurisdiction |-> "None"]

FromCsvError(inner) == Failure("ReaderBuilderError", inner)

Abort == [tag |-> "Panic", kind |-> "", inner |-> "", polls |-> <<>>, jurisdiction |-> "None"]

Table(ps, j) == [tag |-> "Ok", kind |-> "", inner |-> "", polls |-> ps, jurisdiction |-> j]

(* Why a call failed, as the caller's input shows it. *)
PathReason(p) ==
    IF FileName(p) = None THEN "no_base_name"
    ELSE IF Extension(p) # Some(CsvText) THEN "no_file_type_marker"
    ELSE "unknown_jurisdiction"

-----------------------------------------------------------------------------
(* The constructors, step by step.                                         *)

Inputs(srcs) ==
    /\ entry \in {"try_from_path", "from_str"}
    /\ path \in (IF entry = "try_from_path" THEN Paths ELSE {<<>>})
    /\ openable \in (IF entry = "try_from_path" /\ path # <<>> THEN BOOLEAN ELSE {FALSE})
    /\ code \in (IF entry = "from_str" THEN CodeArgs ELSE {<<>>})
    /\ source \in srcs
    /\ pc = "start"
    /\ rdr = 0
    /\ polls = <<>>
    /\ jurisdiction = "None"
    /\ result = NoResult
    /\ range = NoRange

Init ==
    /\ cell = <<>> /\ column = "Polling Firm" /\ decoded = Pending
    /\ Inputs(Sources)
    /\ reported = {}

(* The error type of each constructor. *)
ErrorEnum(e) ==
    IF e = "try_from_path" THEN "PollTableTryFromPathError" ELSE "PollTableFromStrError"

Return(res, reason) ==
    /\ pc' = "done"
    /\ result' = res
    /\ reported' = IF res.tag = "Err"
                   THEN reported \cup {<<ErrorEnum(entry), reason, res.kind>>}
                   ELSE reported

(* try_from_path: ReaderBuilder::new().from_path(path)? *)
TryFromPath_Open ==
    /\ entry = "try_from_path" /\ pc = "start"
    /\ IF openable
       THEN pc' = "opened" /\ UNCHANGED <<result, reported>>
       ELSE Return(FromCsvError("Io"), "source_open")
    /\ UNCHANGED <<entry, path, openable, code, source, rdr, polls, jurisdiction, range>>
    /\ UNCHANGED decodeVars

(* try_from_path: the extension, the file stem and the jurisdiction. *)
TryFromPath_Resolve ==
    /\ entry = "try_from_path" /\ pc = "opened"
    /\ LET extension == Extension(path)
           filename == FileStem(path)
           map == init_jurisdiction
       IN  IF extension = None
           THEN Return(Failure("InvalidPathError", ""), PathReason(path))
                /\ UNCHANGED <<code, jurisdiction>>
           ELSE IF extension[1] # CsvText
           THEN Return(Failure("NotCsvError", ""), PathReason(path))
                /\ UNCHANGED <<code, jurisdiction>>
           ELSE IF filename = None
           THEN Return(Failure("InvalidPathError", ""), PathReason(path))
                /\ UNCHANGED <<code, jurisdiction>>
           ELSE /\ code' = filename[1]
                /\ IF MapGet(map, filename[1]) = "None"
                   THEN Return(Failure("InvalidJurisdictionError", ""), PathReason(path))
                        /\ UNCHANGED jurisdiction
                   ELSE /\ jurisdiction' = MapGet(map, filename[1])
                        /\ pc' = "rows"
                        /\ UNCHANGED <<result, reported>>
    /\ UNCHANGED <<entry, path, openable, source, rdr, polls, range>>
    /\ UNCHANGED decodeVars

(* from_str with the jurisdiction looked up only once the rows are read:   *)
(* the step lets the rows go ahead whatever the code is.                   *)
Mutant_FromStr_Resolve_Late ==
    /\ entry = "from_str" /\ pc = "start"
    /\ jurisdiction' = MapGet(init_jurisdiction, code)
    /\ pc' = "rows"
    /\ UNCHANGED <<result, reported>>
    /\ UNCHANGED <<entry, path, openable, code, source, rdr, polls, range>>
    /\ UNCHANGED decodeVars

(* from_str: the reader over the text (which cannot fail), then the        *)
(* jurisdiction.                                                           *)
FromStr_Resolve ==
    /\ entry = "from_str" /\ pc = "start"
    /\ LET map == init_jurisdiction
       IN  IF MapGet(map, code) = "None"
           THEN Return(Failure("InvalidJurisdictionError", ""), "unknown_jurisdiction")
                /\ UNCHANGED jurisdiction
           ELSE /\ jurisdiction' = MapGet(map, code)
                /\ pc' = "rows"
                /\ UNCHANGED <<result, reported>>
    /\ UNCHANGED <<entry, path, openable, code, source, rdr, polls, range>>
    /\ UNCHANGED decodeVars

(* The loop body with a row that does not decode skipped (continue) where  *)
(* the code returns.                                                       *)
Mutant_ReadRow_Skip ==
    /\ pc = "rows" /\ rdr < Len(source.rows)
    /\ LET record == DecodeRow(source.headers, source.rows[rdr + 1])
       IN  /\ rdr' = rdr + 1
           /\ polls' = IF record.tag = "Ok" THEN Append(polls, record.poll[1]) ELSE polls
           /\ UNCHANGED <<pc, result, reported>>
    /\ UNCHANGED <<entry, path, openable, code, source, jurisdiction, range>>
    /\ UNCHANGED decodeVars

(* for result in rdr.deserialize() { let record: Poll = result?; polls.push(record); } *)
ReadRow ==
    /\ pc = "rows" /\ rdr < Len(source.rows)
    /\ LET record == DecodeRow(source.headers, source.rows[rdr + 1])
       IN  /\ rdr' = rdr + 1
           /\ CASE record.tag = "Ok" ->
                     /\ polls' = Append(polls, record.poll[1])
                     /\ UNCHANGED <<pc, result, reported>>
                [] record.tag = "Err" ->
                     /\ Return(FromCsvError("Deserialize"), "row_decode")
                     /\ UNCHANGED polls
                [] record.tag = "Panic" ->
                     /\ Return(Abort, "abort")
                     /\ UNCHANGED polls
    /\ UNCHANGED <<entry, path, openable, code, source, jurisdiction, range>>
    /\ UNCHANGED decodeVars

(* Ok(PollTable { polls, jurisdiction }) once the reader is exhausted. *)
Finish ==
    /\ pc = "rows" /\ rdr = Len(source.rows)
    /\ Return(Table(polls, jurisdiction), "none")
    /\ UNCHANGED <<entry, path, openable, code, source, rdr, polls, jurisdiction, range>>
    /\ UNCHANGED decodeVars

-----------------------------------------------------------------------------
(* PollTable::date_range.                                                  *)

UsizeBits == 64

(* The day number of a calendar date (days since 1970-01-01). *)
DayNumber(dt) ==
    LET y == IF dt.m <= 2 THEN dt.y - 1 ELSE dt.y
        era == y \div 400
        yoe == y - era * 400
        mp == (dt.m + 9) % 12
        doy == (153 * mp + 2) \div 5 + dt.d - 1
        doe == yoe * 365 + yoe \div 4 - yoe \div 100 + doy
    IN  era * 146097 + doe - 719468

(* A usize is written as its 16-bit limbs, most significant first. *)
UsizeOf(n) == [i \in 1..(UsizeBits \div 16) |->
                  IF i = UsizeBits \div 16 THEN n % 65536
                  ELSE IF i = UsizeBits \div 16 - 1 THEN n \div 65536
                  ELSE 0]

(* i64 as usize: the two's complement bits of n, -n-1 complemented when n  *)
(* is negative.                                                            *)
AsUsize(n) ==
    IF n >= 0 THEN UsizeOf(n)
    ELSE [i \in 1..(UsizeBits \div 16) |-> 65535 - UsizeOf(0 - n - 1)[i]]

(* date_range with the first and last record read through unwrap_or of a    *)
(* default where the code has expect(): an empty table gives a span of 0.  *)
Mutant_date_range_ZeroOnEmpty(ps) ==
    IF ps = <<>> THEN [tag |-> "Value", days |-> UsizeOf(0)]
    ELSE LET last_date == ps[1].fieldwork_end.date
             first_date == ps[Len(ps)].fieldwork_start.date
             diff == DayNumber(last_date) - DayNumber(first_date)
         IN  [tag |-> "Value", days |-> AsUsize(diff)]

date_range(ps) ==
    IF ps = <<>> THEN [tag |-> "Panic", days |-> <<>>]
    ELSE LET last_date == ps[1].fieldwork_end.date
             first_date == ps[Len(ps)].fieldwork_start.date
             diff == DayNumber(last_date) - DayNumber(first_date)
         IN  [tag |-> "Value", days |-> AsUsize(diff)]

DateRange ==
    /\ pc = "done" /\ result.tag = "Ok" /\ range = NoRange
    /\ range' = date_range(result.polls)
    /\ UNCHANGED <<entry, pc, path, openable, code, source, rdr, polls, jurisdiction,
                   result, reported>>
    /\ UNCHANGED decodeVars

Next ==
    \/ TryFromPath_Open
    \/ TryFromPath_Resolve
    \/ FromStr_Resolve
    \/ ReadRow
    \/ Finish
    \/ DateRange

Spec == Init /\ [][Next]_vars

-----------------------------------------------------------------------------
(* SpecCalls: a caller that makes one call after another and keeps what    *)
(* each failure was reported as.  The sources are the header-only one, a   *)
(* row that decodes and a row that does not.                               *)

CallSources ==
    {[headers |-> DocHeaders, rows |-> [i \in 1..Len(rs) |-> Record(DocHeaders, rs[i])]] :
        rs \in {<<>>, <<DocRow>>, <<RegionalRow>>}}

InitCalls ==
    /\ cell = <<>> /\ column = "Polling Firm" /\ decoded = Pending
    /\ Inputs(CallSources)
    /\ reported = {}

NewCall ==
    /\ pc = "done"
    /\ entry' \in {"try_from_path", "from_str"}
    /\ path' \in (IF entry' = "try_from_path" THEN Paths ELSE {<<>>})
    /\ openable' \in (IF entry' = "try_from_path" /\ path' # <<>> THEN BOOLEAN ELSE {FALSE})
    /\ code' \in (IF entry' = "from_str" THEN CodeArgs ELSE {<<>>})
    /\ source' \in CallSources
    /\ pc' = "start"
    /\ rdr' = 0
    /\ polls' = <<>>
    /\ jurisdiction' = "None"
    /\ result' = NoResult
    /\ range' = NoRange
    /\ UNCHANGED reported
    /\ UNCHANGED decodeVars

NextCalls ==
    \/ TryFromPath_Open
    \/ TryFromPath_Resolve
    \/ FromStr_Resolve
    \/ ReadRow
    \/ Finish
    \/ DateRange
    \/ NewCall

SpecCalls == InitCalls /\ [][NextCalls]_vars

-----------------------------------------------------------------------------
(* Claims about the constructors and date_range.                           *)

(* The key the running constructor looks up, once it gets to the lookup. *)
LookupReached ==
    \/ entry = "from_str" /\ pc # "start"
    \/ /\ entry = "try_from_path" /\ pc \in {"rows", "done"}
       /\ openable /\ Extension(path) = Some(CsvText)

LookupKey == IF entry = "from_str" THEN code ELSE FileStem(path)[1]

RowOutcomes == [i \in 1..Len(source.rows) |-> DecodeRow(source.headers, source.rows[i])]

FailingRows == {i \in 1..Len(source.rows) : RowOutcomes[i].tag # "Ok"}

FirstFailingRow == CHOOSE i \in FailingRows : \A j \in FailingRows : i <= j

(* C4: the code table is one-to-one onto enum Jurisdiction, a lookup of a  *)
(* code of the table resolves to the table's jurisdiction for it, and a    *)
(* lookup of any other code returns InvalidJurisdictionError.              *)
C4_JurisdictionLookup ==
    LET map == init_jurisdiction
    IN  /\ \A i, j \in 1..Len(map) :
              i # j => (map[i][1] # map[j][1] /\ map[i][2] # map[j][2])
        /\ {map[i][2] : i \in 1..Len(map)} = Jurisdiction
        /\ \A i \in 1..Len(map) : MapGet(map, map[i][1]) = map[i][2]
        /\ MapGet(map, <<"g", "b">>) # MapGet(map, <<"g", "b", "-", "n", "i", "r">>)
        /\ (LookupReached /\ LookupKey \in MapKeys(map)) =>
              /\ jurisdiction = MapGet(map, LookupKey)
              /\ jurisdiction \in Jurisdiction
              /\ result.kind # "InvalidJurisdictionError"
        /\ (LookupReached /\ LookupKey \notin MapKeys(map)) =>
              /\ pc = "done"
              /\ jurisdiction = "None"
              /\ result = Failure("InvalidJurisdictionError", "")

C4_Witness ==
    /\ entry = "try_from_path" /\ pc = "done"
    /\ path = <<"g", "b", "-", "n", "i", "r", ".", "c", "s", "v">>
    /\ result.tag = "Ok"
    /\ result.jurisdiction = "UKNorthernIreland"

(* C5: a constructor returns a table only when every row decoded, and the  *)
(* table then holds one Poll per row in source order; when the first row   *)
(* that does not decode returns an error the constructor returns that      *)
(* error; nothing but a complete table is ever returned.                   *)
C5_AllOrNothing ==
    pc = "done" =>
        /\ result.tag = "Ok" =>
              /\ FailingRows = {}
              /\ Len(result.polls) = Len(source.rows)
              /\ \A i \in 1..Len(source.rows) : result.polls[i] = RowOutcomes[i].poll[1]
        /\ result.tag # "Ok" => result.polls = <<>>
        /\ (jurisdiction # "None" /\ FailingRows # {}) =>
              /\ rdr = FirstFailingRow
              /\ RowOutcomes[FirstFailingRow].tag = "Err" => result = FromCsvError("Deserialize")
              /\ RowOutcomes[FirstFailingRow].tag = "Panic" => result = Abort

C5_Witness ==
    /\ pc = "done"
    /\ Len(source.rows) = 2
    /\ Len(polls) = 1
    /\ result.tag = "Err"
    /\ result.polls = <<>>

(* C6: no row is decoded before the jurisdiction is resolved, and a call   *)
(* that gets to the lookup with a code that is not in the table returns    *)
(* InvalidJurisdictionError with no row decoded, whatever the rows are.    *)
C6_JurisdictionBeforeRows ==
    /\ rdr > 0 => jurisdiction # "None"
    /\ (pc = "done" /\ LookupReached /\ LookupKey \notin MapKeys(init_jurisdiction)) =>
          /\ result = Failure("InvalidJurisdictionError", "")
          /\ rdr = 0
          /\ polls = <<>>

C6_Witness ==
    /\ entry = "from_str" /\ pc = "done"
    /\ code = <<"x", "e">>
    /\ Len(source.rows) > 0
    /\ FailingRows # {}
    /\ rdr = 0
    /\ result.kind = "InvalidJurisdictionError"

PathReasons == {"unknown_jurisdiction", "no_base_name", "no_file_type_marker"}

(* C7: an unknown jurisdiction code, a path with no base name and a path   *)
(* with no file-type marker are reported by try_from_path with three       *)
(* different error kinds.                                                  *)
C7_PathReasonsDistinct ==
    \A r1, r2 \in reported :
        (/\ r1[1] = "PollTableTryFromPathError" /\ r2[1] = "PollTableTryFromPathError"
         /\ r1[2] \in PathReasons /\ r2[2] \in PathReasons /\ r1[2] # r2[2])
            => r1[3] # r2[3]

(* C8: a failure to open the source and a failure to decode a row are      *)
(* reported with different error kinds.                                    *)
C8_OpenAndRowKindsDistinct ==
    \A r1, r2 \in reported :
        (r1[1] = r2[1] /\ r1[2] = "source_open" /\ r2[2] = "row_decode") => r1[3] # r2[3]

(* C9: on a table of at least one poll date_range returns the number of    *)
(* days from the last record's fieldwork start to the first record's       *)
(* fieldwork end.                                                          *)
C9_DateRangeIsDayDifference ==
    (range # NoRange /\ Len(result.polls) >= 1) =>
        LET first == result.polls[1]
            last == result.polls[Len(result.polls)]
            diff == DayNumber(first.fieldwork_end.date) - DayNumber(last.fieldwork_start.date)
        IN  /\ range.tag = "Value"
            /\ diff >= 0
            /\ range.days = UsizeOf(diff)

(* C11: date_range on a table of no polls, which a header-only source      *)
(* gives, ends in the abort of expect(); it returns no number, zero         *)
(* included.                                                                *)
C11_EmptyTableAborts ==
    /\ (pc = "done" /\ jurisdiction # "None" /\ source.rows = <<>>) =>
          (result.tag = "Ok" /\ result.polls = <<>>)
    /\ (range # NoRange /\ result.polls = <<>>) =>
          (range.tag = "Panic" /\ range.tag # "Value" /\ range.days = <<>>)

C11_Witness ==
    /\ pc = "done"
    /\ source.rows = <<>>
    /\ result.tag = "Ok"
    /\ result.polls = <<>>
    /\ range.tag = "Panic"

(* Whether the usize written as limbs is the integer n.  Every limb is in  *)
(* 0..65535, so a usize is never a negative number.                        *)
UsizeIs(limbs, n) == n >= 0 /\ limbs = UsizeOf(n)

(* C12: a row whose fieldwork end is before its fieldwork start decodes    *)
(* like any other, and when the first record's fieldwork end is before the *)
(* last record's fieldwork start date_range returns the negative number of *)
(* days first.end - last.start.                                            *)
C12_NegativeSpanIsSignedDifference ==
    /\ \A i \in 1..Len(source.rows) :
          (\A k \in 1..Len(source.headers) :
                DecodeField(source.headers[k], source.rows[i][k]).tag = "Ok")
             => RowOutcomes[i].tag = "Ok"
    /\ (range # NoRange /\ Len(result.polls) >= 1) =>
          LET first == result.polls[1]
              last == result.polls[Len(result.polls)]
              diff == DayNumber(first.fieldwork_end.date)
                        - DayNumber(last.fieldwork_start.date)
          IN  diff < 0 => (range.tag = "Value" /\ UsizeIs(range.days, diff))

(* C13: in every decoded row the keys of party_results are exactly the     *)
(* headers that are none of the ten fixed names, wherever those columns    *)
(* sit, and each value is its cell decoded as PollOption<PercentageOrSeats>.*)
C13_PartyResultsKeys ==
    \A i \in 1..Len(polls) :
        LET hs == source.headers
            keys == {hs[k] : k \in 1..Len(hs)} \ FixedColumns
            party == polls[i].party_results
        IN  /\ DOMAIN party = keys
            /\ DOMAIN party \cap FixedColumns = {}
            /\ \A k \in 1..Len(hs) :
                  hs[k] \in keys =>
                     Deserialize_PollOption_PercentageOrSeats(source.rows[i][k])
                        = Ok(party[hs[k]])

C13_Witness ==
    /\ pc = "done" /\ result.tag = "Ok"
    /\ source.headers = InterleavedHeaders
    /\ Len(result.polls) = 2
    /\ DOMAIN result.polls[2].party_results = {"First Party", "Second Party"}
    /\ result.polls[2].party_results["First Party"].type = "Seats"
    /\ result.polls[2].party_results["Second Party"] = NotAvailable
    /\ result.polls[1].party_results["First Party"].type = "Percentage"

====
